---- MODULE Spec2Model ----
(***************************************************************************)
(* InsightAlpha (src/app.py): one user-triggered request of the dashboard. *)
(*                                                                         *)
(*   trigger -> validate_ticker -> get_data (calculate_rsi, calculate_dcf) *)
(*           -> stock.news -> news loop (normalise, deduplicate, classify) *)
(*           -> sentiment aggregation -> rendering / get_report            *)
(*                                                                         *)
(* Python values are encoded as follows.                                   *)
(*   - a string is a TLA+ string; a ticker is a sequence of characters;    *)
(*   - an optional string (title, link, url) is a string or None;          *)
(*   - an optional number is [t |-> "none"], [t |-> "str"] (a value of the *)
(*     wrong type) or [t |-> "num", v |-> i];                              *)
(*   - a nested structure is [t |-> "none"] (absent), [t |-> "str"] (not a *)
(*     dict) or [t |-> "dict", ...];                                       *)
(*   - a float of the RSI computation is [t |-> "nan"], [t |-> "inf"] or   *)
(*     the exact rational [t |-> "num", num |-> a, den |-> b];             *)
(*   - the list scores is read only through sum() and len(), so it is kept *)
(*     as a bag of its elements.                                           *)
(***************************************************************************)
EXTENDS Integers, Sequences, FiniteSets, Bags, TLC

VARIABLES
    pc,                \* position of the script run
    search_triggered,  \* st.session_state.search_triggered
    raw_input,         \* content of the "Enter Ticker:" widget
    ticker_input,      \* raw_input.upper().strip()
    error,             \* message shown by st.error ("none" when none)
    calls,             \* number of calls of get_data / stock.news / get_report
    info,              \* stock.info as the provider serves it
    closes,            \* stock.history(...)['Close'] as the provider serves it
    rsi,               \* hist['RSI']
    data,              \* first result of get_data
    clean_hist,        \* second result of get_data
    n,                 \* loop variable of the news loop (last raw item examined)
    idx,               \* number of raw items the loop has examined
    first_seen,        \* history: titles of the examined items by first appearance
    titles_found,
    seen_titles,
    display_news,
    scores,
    outcomes,          \* history: how many classifier calls ended in each way
    classified,        \* history: the titles handed to sentiment_pipe, in order
    scored_after_fail, \* history: a call succeeded after an earlier call failed
    sent_val,
    sent_text

vars == <<pc, search_triggered, raw_input, ticker_input, error, calls, info,
          closes, rsi, data, clean_hist, n, idx, first_seen, titles_found,
          seen_titles, display_news, scores, outcomes, classified,
          scored_after_fail, sent_val, sent_text>>

uiVars == <<search_triggered, raw_input, ticker_input, error>>
worldVars == <<info, closes>>
dataVars == <<rsi, data, clean_hist>>
newsVars == <<n, idx, first_seen, titles_found, seen_titles, display_news,
              scores, outcomes, classified, scored_after_fail>>
sentVars == <<sent_val, sent_text>>

(***************************************************************************)
(* Bounds of the model and constants of the program.                       *)
(***************************************************************************)
MaxInput == 7          \* longest text typed into the ticker widget
MaxLen == 15           \* longest price series
MaxNews == 21          \* longest news batch (long, plain batches)
MaxShort == 3          \* longest news batch (short batches of rich items)
MaxFcf == 4            \* largest |freeCashflow| and |sharesOutstanding|

MaxTicker == 6         \* validate_ticker: len(ticker) > 6
Window == 14           \* calculate_rsi: window=14
MaxTitles == 20        \* news loop: len(titles_found) >= 20
MaxDisplay == 5        \* news loop: len(display_news) < 5
Growth == 120          \* calculate_dcf: growth 0.12, in thousandths
Discount == 100        \* calculate_dcf: discount 0.10, in thousandths
Terminal == 30         \* calculate_dcf: terminal 0.03, in thousandths
Years == 5             \* calculate_dcf: range(1, 6)
Scale == 1000          \* fixed point of the DCF arithmetic: thousandths
DefaultRsi == 50       \* get_data: ... else 50

None == "<None>"

Range(s) == {s[i] : i \in DOMAIN s}
Min(a, b) == IF a < b THEN a ELSE b
Abs(a) == IF a < 0 THEN -a ELSE a

RECURSIVE Gcd(_, _)
Gcd(a, b) == IF b = 0 THEN a ELSE Gcd(b, a % b)

\* Python truthiness of an optional string
Truthy(s) == s # None /\ s # ""

(***************************************************************************)
(* Ticker input: raw_input.upper().strip() and validate_ticker.            *)
(***************************************************************************)
Chars == {"A", "a", "1", " "}
AZ == {"A", "B", "C", "D", "E", "F", "G", "H", "I", "J", "K", "L", "M",
       "N", "O", "P", "Q", "R", "S", "T", "U", "V", "W", "X", "Y", "Z"}
TextInputs == UNION {[1..k -> Chars] : k \in 0..MaxInput}
DefaultInput == <<"N", "V", "D", "A">>

UpperChar(c) == IF c = "a" THEN "A" ELSE c
Upper(s) == [i \in 1..Len(s) |-> UpperChar(s[i])]

RECURSIVE LStrip(_)
LStrip(s) == IF s # <<>> /\ Head(s) = " " THEN LStrip(Tail(s)) ELSE s
RECURSIVE RStrip(_)
RStrip(s) ==
    IF s # <<>> /\ s[Len(s)] = " " THEN RStrip(SubSeq(s, 1, Len(s) - 1)) ELSE s
Strip(s) == RStrip(LStrip(s))

validate_ticker_AnyLength(ticker) ==
    IF ticker = <<>> THEN [ok |-> FALSE, msg |-> "empty"]
    ELSE IF ~(\A i \in 1..Len(ticker) : ticker[i] \in AZ)
         THEN [ok |-> FALSE, msg |-> "letters"]
    ELSE [ok |-> TRUE, msg |-> "none"]

validate_ticker(ticker) ==
    IF ticker = <<>> THEN [ok |-> FALSE, msg |-> "empty"]
    ELSE IF ~(\A i \in 1..Len(ticker) : ticker[i] \in AZ)
         THEN [ok |-> FALSE, msg |-> "letters"]
    ELSE IF Len(ticker) > MaxTicker THEN [ok |-> FALSE, msg |-> "long"]
    ELSE [ok |-> TRUE, msg |-> "none"]

(***************************************************************************)
(* Floats of calculate_rsi: NaN, infinity and exact rationals.             *)
(***************************************************************************)
NaN == [t |-> "nan"]
Inf == [t |-> "inf"]
Rat(a, b) ==
    LET g == Gcd(Abs(a), Abs(b))
        s == IF b < 0 THEN -1 ELSE 1
    IN  [t |-> "num", num |-> (s * a) \div g, den |-> (s * b) \div g]
IsNum(x) == x.t = "num"

\* x / y for x, y >= 0: 0/0 is NaN and x/0 is infinite, as in IEEE arithmetic
FDiv(x, y) ==
    IF x.t = "nan" \/ y.t = "nan" THEN NaN
    ELSE IF y.t = "inf" THEN (IF x.t = "inf" THEN NaN ELSE Rat(0, 1))
    ELSE IF x.t = "inf" THEN Inf
    ELSE IF y.num = 0 THEN (IF x.num = 0 THEN NaN ELSE Inf)
    ELSE Rat(x.num * y.den, x.den * y.num)
FAdd(x, y) ==
    IF x.t = "nan" \/ y.t = "nan" THEN NaN
    ELSE IF x.t = "inf" \/ y.t = "inf" THEN Inf
    ELSE Rat(x.num * y.den + y.num * x.den, x.den * y.den)
\* x - y for a finite y
FSub(x, y) ==
    IF x.t = "nan" \/ y.t = "nan" THEN NaN
    ELSE IF x.t = "inf" THEN Inf
    ELSE Rat(x.num * y.den - y.num * x.den, x.den * y.den)

(***************************************************************************)
(* calculate_rsi(data, window=14), entry i of the result (1-based).        *)
(***************************************************************************)
\* data.diff(): the first entry is NaN
Delta(series, i) ==
    IF i = 1 THEN NaN ELSE Rat(series[i] - series[i - 1], 1)
\* delta.where(delta > 0, 0): NaN > 0 is false, so NaN is replaced by 0
GainAt(series, i) ==
    LET d == Delta(series, i) IN IF IsNum(d) /\ d.num > 0 THEN d.num ELSE 0
\* -delta.where(delta < 0, 0)
LossAt(series, i) ==
    LET d == Delta(series, i) IN -(IF IsNum(d) /\ d.num < 0 THEN d.num ELSE 0)

\* the columns delta.where(delta > 0, 0) and -delta.where(delta < 0, 0)
GainCol(series) == [i \in 1..Len(series) |-> GainAt(series, i)]
LossCol(series) == [i \in 1..Len(series) |-> LossAt(series, i)]

RECURSIVE SumTo(_, _, _)
SumTo(col, lo, hi) ==
    IF hi < lo THEN 0 ELSE col[hi] + SumTo(col, lo, hi - 1)

\* .rolling(window).mean(): NaN until the window holds `window` observations
RollingMean(col, i, window) ==
    IF i < window THEN NaN
    ELSE Rat(SumTo(col, i - window + 1, i), window)

RsiAt(series, i, window) ==
    LET gain == RollingMean(GainCol(series), i, window)
        loss == RollingMean(LossCol(series), i, window)
        rs == FDiv(gain, loss)
    IN  FSub(Rat(100, 1), FDiv(Rat(100, 1), FAdd(Rat(1, 1), rs)))

calculate_rsi(series, window) ==
    [i \in 1..Len(series) |-> RsiAt(series, i, window)]

(***************************************************************************)
(* calculate_dcf(info), in thousandths (fixed point).                      *)
(***************************************************************************)
NoneV == [t |-> "none"]
StrV == [t |-> "str"]
NumV(i) == [t |-> "num", v |-> i]

RECURSIVE Pow(_, _)
\* (1 + rate) ** i, in thousandths
Pow(rate, i) ==
    IF i = 0 THEN Scale ELSE (Pow(rate, i - 1) * (Scale + rate)) \div Scale

\* future_fcf[i] = fcf * (1 + growth) ** i
FutureFcf(fcf, i) == fcf * Pow(Growth, i)
RECURSIVE PvFcf(_, _)
\* sum([f / (1 + discount) ** i for i, f in enumerate(future_fcf, 1)])
PvFcf(fcf, i) ==
    IF i = 0 THEN 0
    ELSE PvFcf(fcf, i - 1) + (FutureFcf(fcf, i) * Scale) \div Pow(Discount, i)

calculate_dcf(inf) ==
    LET fcf == inf.fcf
        shares == inf.shares
    IN  \* `not fcf`: None or 0; `fcf < 0` raises on a value of the wrong type
        IF fcf.t = "none" THEN NoneV
        ELSE IF fcf.t = "str" THEN NoneV
        ELSE IF fcf.v = 0 \/ fcf.v < 0 THEN NoneV
        \* `not shares`: None or 0
        ELSE IF shares.t = "none" THEN NoneV
        ELSE IF shares.t = "num" /\ shares.v = 0 THEN NoneV
        ELSE LET pv_fcf == PvFcf(fcf.v, Years)
                 tv == (FutureFcf(fcf.v, Years) * (Scale + Terminal))
                           \div (Discount - Terminal)
                 pv_tv == (tv * Scale) \div Pow(Discount, Years)
             IN  \* (pv_fcf + pv_tv) / shares raises on a value of the wrong type
                 IF shares.t = "str" THEN NoneV
                 ELSE NumV((pv_fcf + pv_tv) \div shares.v)

(***************************************************************************)
(* get_data(ticker)                                                        *)
(***************************************************************************)
NoData == [t |-> "none"]
HistRows(series, col) == [i \in 1..Len(series) |-> [Close |-> series[i], RSI |-> col[i]]]
\* hist.dropna(subset=['RSI'])
DropNa(rows) == SelectSeq(rows, LAMBDA r : r.RSI.t # "nan")

GetData ==
    /\ pc = "get_data"
    /\ calls' = [calls EXCEPT !.get_data = @ + 1]
    /\ IF info.fault \/ ~info.hasPrice \/ closes = <<>>
       THEN /\ data' = NoData
            /\ UNCHANGED <<rsi, clean_hist>>
            /\ error' = "notfound"
            /\ pc' = "notfound"
       ELSE LET col == calculate_rsi(closes, Window) IN
            /\ rsi' = col
            /\ data' = [t |-> "data",
                        Ticker |-> ticker_input,
                        DCF |-> calculate_dcf(info),
                        RSI |-> IF col # <<>> THEN col[Len(col)]
                                ELSE Rat(DefaultRsi, 1)]
            /\ clean_hist' = DropNa(HistRows(closes, col))
            /\ error' = error
            /\ pc' = "fetch_news"
    /\ UNCHANGED <<search_triggered, raw_input, ticker_input>>
    /\ UNCHANGED <<worldVars, newsVars, sentVars>>

(***************************************************************************)
(* Raw news items (stock.news) and the extraction of title and link.       *)
(***************************************************************************)
Absent == [t |-> "none"]
NotDict == [t |-> "str"]
UrlDict(u) == [t |-> "dict", url |-> u]
ContentDict(title, ct, can) ==
    [t |-> "dict", title |-> title, clickThroughUrl |-> ct, canonicalUrl |-> can]
IsDict(x) == x.t = "dict"

\* n.get('title') or (n.get('content', {}).get('title')
\*                    if isinstance(n.get('content'), dict) else None)
ResolveTitle(item) ==
    IF Truthy(item.title) THEN item.title
    ELSE IF IsDict(item.content) THEN item.content.title
    ELSE None

ResolveLink_NoShortCircuit(item) ==
    LET link0 == item.link
        content == item.content
    IN  IF IsDict(content)
        THEN LET link1 == IF IsDict(content.clickThroughUrl)
                          THEN content.clickThroughUrl.url ELSE link0
             IN  IF ~Truthy(link1)
                 THEN (IF IsDict(content.canonicalUrl)
                       THEN content.canonicalUrl.url ELSE link1)
                 ELSE link1
        ELSE link0

\* "SAFE LINK RETRIEVAL": the value of link after the nested lookups
ResolveLink(item) ==
    LET link0 == item.link
        content == item.content
    IN  IF ~Truthy(link0) /\ IsDict(content)
        THEN LET link1 == IF IsDict(content.clickThroughUrl)
                          THEN content.clickThroughUrl.url ELSE link0
             IN  IF ~Truthy(link1)
                 THEN (IF IsDict(content.canonicalUrl)
                       THEN content.canonicalUrl.url ELSE link1)
                 ELSE link1
        ELSE link0

\* final_link = link if link else f"https://www.google.com/search?q={title}"
FinalLink(link, title) ==
    IF Truthy(link) THEN link ELSE "https://www.google.com/search?q=" \o title

Accept_NoDedup(title, seen) == Truthy(title)
\* if title and title not in seen_titles
Accept(title, seen) == Truthy(title) /\ title \notin seen

CapReached_Late(found) == Len(found) > MaxTitles
\* if len(titles_found) >= 20: break
CapReached(found) == Len(found) >= MaxTitles

DisplayAppend_NoCap(display, entry) == Append(display, entry)
\* if len(display_news) < 5: display_news.append(...)
DisplayAppend(display, entry) ==
    IF Len(display) < MaxDisplay THEN Append(display, entry) ELSE display

(***************************************************************************)
(* Sentiment: one classifier call per accepted title, then the aggregate.  *)
(***************************************************************************)
Labels == {"positive", "negative", "neutral"}
Outcomes == Labels \cup {"fail"}     \* "fail": sentiment_pipe raised

\* 1 if res['label'] == 'positive' else -1 if res['label'] == 'negative' else 0
ScoreOf(label) ==
    IF label = "positive" THEN 1 ELSE IF label = "negative" THEN -1 ELSE 0

AddScore_ZeroOnFail(sc, out) == sc (+) SetToBag({ScoreOf(out)})
\* try: scores.append(...) except: continue
AddScore(sc, out) ==
    IF out = "fail" THEN sc ELSE sc (+) SetToBag({ScoreOf(out)})

\* sum(scores), len(scores)
SumScores(sc) == CopiesIn(1, sc) - CopiesIn(-1, sc)
LenScores(sc) == BagCardinality(sc)

ThresholdPct == 15     \* 0.15, in hundredths

\* f"{sent_val:.2f}": hundredths, ties to even
Round2(x) ==
    LET h == 100 * Abs(x.num)
        q == h \div x.den
        r == h % x.den
        m == IF 2 * r > x.den THEN q + 1
             ELSE IF 2 * r = x.den THEN q + (q % 2)
             ELSE q
    IN  IF x.num < 0 THEN -m ELSE m

SentText_Inclusive(x) ==
    IF 100 * x.num >= ThresholdPct * x.den
    THEN [label |-> "Positive", shown |-> Round2(x)]
    ELSE IF 100 * x.num <= -ThresholdPct * x.den
         THEN [label |-> "Negative", shown |-> Round2(x)]
    ELSE [label |-> "Neutral / Mixed"]

\* Positive if sent_val > 0.15, Negative if sent_val < -0.15, else Neutral / Mixed
SentText(x) ==
    IF 100 * x.num > ThresholdPct * x.den
    THEN [label |-> "Positive", shown |-> Round2(x)]
    ELSE IF 100 * x.num < -ThresholdPct * x.den
         THEN [label |-> "Negative", shown |-> Round2(x)]
    ELSE [label |-> "Neutral / Mixed"]

NoNewsData == [label |-> "No News Data"]

(***************************************************************************)
(* The script run, one action per step.                                    *)
(***************************************************************************)
NoCalls == [get_data |-> 0, news |-> 0, report |-> 0]
NoOutcomes == [positive |-> 0, negative |-> 0, neutral |-> 0, fail |-> 0]
NoItem == [title |-> None, link |-> None, content |-> Absent]

\* on_change=trigger_search of the text input: the user submits another text
EditTicker ==
    /\ pc = "idle"
    /\ \E s \in TextInputs :
          /\ s # raw_input
          /\ raw_input' = s
    /\ search_triggered' = TRUE
    /\ pc' = "run"
    /\ UNCHANGED <<ticker_input, error, calls>>
    /\ UNCHANGED <<worldVars, dataVars, newsVars, sentVars>>

\* on_click=trigger_search of the button
ClickRun ==
    /\ pc = "idle"
    /\ search_triggered' = TRUE
    /\ pc' = "run"
    /\ UNCHANGED <<raw_input, ticker_input, error, calls>>
    /\ UNCHANGED <<worldVars, dataVars, newsVars, sentVars>>

\* the rerun of the script up to the call of get_data
RunScript ==
    /\ pc = "run"
    /\ LET ticker == Strip(Upper(raw_input))
           v == validate_ticker(ticker)
       IN  /\ ticker_input' = ticker
           /\ IF ~search_triggered
              THEN pc' = "idle" /\ error' = error
              ELSE IF ~v.ok
                   THEN pc' = "error" /\ error' = v.msg
                   ELSE pc' = "get_data" /\ error' = error
    /\ UNCHANGED <<search_triggered, raw_input, calls>>
    /\ UNCHANGED <<worldVars, dataVars, newsVars, sentVars>>

\* news_list = stock.news and the four empty collections
FetchNews ==
    /\ pc = "fetch_news"
    /\ calls' = [calls EXCEPT !.news = @ + 1]
    /\ scores' = EmptyBag
    /\ titles_found' = <<>>
    /\ seen_titles' = {}
    /\ display_news' = <<>>
    /\ pc' = "news"
    /\ UNCHANGED <<n, idx, first_seen, outcomes, classified, scored_after_fail>>
    /\ UNCHANGED <<uiVars, worldVars, dataVars, sentVars>>

\* one iteration of `for n in news_list`, with the classifier ending in `out`
NewsStep(item, out) ==
    /\ pc = "news"
    /\ ~CapReached(titles_found)
    /\ LET title == ResolveTitle(item)
           link == ResolveLink(item)
       IN  /\ n' = item
           /\ idx' = idx + 1
           /\ first_seen' = IF Truthy(title) /\ title \notin Range(first_seen)
                            THEN Append(first_seen, title) ELSE first_seen
           /\ IF Accept(title, seen_titles)
              THEN /\ seen_titles' = seen_titles \cup {title}
                   /\ titles_found' = Append(titles_found, title)
                   /\ display_news' =
                          DisplayAppend(display_news,
                              [title |-> title, link |-> FinalLink(link, title)])
                   /\ classified' = Append(classified, title)
                   /\ outcomes' = [outcomes EXCEPT ![out] = @ + 1]
                   /\ scored_after_fail' =
                          (scored_after_fail \/ (out # "fail" /\ outcomes.fail > 0))
                   /\ scores' = AddScore(scores, out)
              ELSE UNCHANGED <<seen_titles, titles_found, display_news,
                               classified, outcomes, scored_after_fail, scores>>
    /\ pc' = "news"
    /\ UNCHANGED <<calls, uiVars, worldVars, dataVars, sentVars>>

\* the list is exhausted (or empty, or None), or the loop breaks
NewsEnd ==
    /\ pc = "news"
    /\ pc' = "aggregate"
    /\ UNCHANGED <<calls, uiVars, worldVars, dataVars, newsVars, sentVars>>

\* if not scores: ... else: ...
Aggregate ==
    /\ pc = "aggregate"
    /\ IF LenScores(scores) = 0
       THEN /\ sent_val' = Rat(0, 1)
            /\ sent_text' = NoNewsData
       ELSE /\ sent_val' = Rat(SumScores(scores), LenScores(scores))
            /\ sent_text' = SentText(Rat(SumScores(scores), LenScores(scores)))
    /\ pc' = "render"
    /\ UNCHANGED <<calls, uiVars, worldVars, dataVars, newsVars>>

\* metrics, charts, news cards and the download button with get_report(data)
Render ==
    /\ pc = "render"
    /\ calls' = [calls EXCEPT !.report = @ + 1]
    /\ pc' = "done"
    /\ UNCHANGED <<uiVars, worldVars, dataVars, newsVars, sentVars>>

(***************************************************************************)
(* Provider data and news feeds.                                           *)
(***************************************************************************)
Info(fault, hasPrice, fcf, shares) ==
    [fault |-> fault, hasPrice |-> hasPrice, fcf |-> fcf, shares |-> shares]
DefaultInfo == Info(FALSE, TRUE, NumV(2), NumV(1))
DefaultCloses == <<1, 2, 1>>

PlainItem(title) == [title |-> title, link |-> None, content |-> Absent]
TitleName(i) == "t" \o ToString(i)

\* Long batches of plain items.  Titles are compared only for equality, so the
\* distinct titles are named in the order of their first appearance; an item
\* carries a new title, repeats the first or the latest title, or has no title.
BatchItems ==
    {PlainItem(None), PlainItem(TitleName(Len(first_seen) + 1))}
    \cup (IF first_seen = <<>> THEN {}
          ELSE {PlainItem(first_seen[1]), PlainItem(first_seen[Len(first_seen)])})

\* Short batches of items of every shape
Urls == {Absent, NotDict, UrlDict(None), UrlDict("CT")}
CanUrls == {Absent, NotDict, UrlDict("CAN")}
Contents ==
    {Absent, NotDict}
    \cup {ContentDict(t, ct, can) : t \in {None, "t1"}, ct \in Urls, can \in CanUrls}
RichItems ==
    [title : {None, "", "t1", "t2"}, link : {None, "L"}, content : Contents]

TinyItems == {PlainItem(None), PlainItem("t1")}

NewsLoopBatch ==
    /\ idx < MaxNews
    /\ \E item \in BatchItems, out \in Outcomes : NewsStep(item, out)
NewsLoopRich ==
    /\ idx < MaxShort
    /\ \E item \in RichItems, out \in {"neutral", "fail"} : NewsStep(item, out)
NewsLoopTiny ==
    /\ idx < 2
    /\ \E item \in TinyItems, out \in {"positive", "fail"} : NewsStep(item, out)

(***************************************************************************)
(* Specifications.                                                         *)
(***************************************************************************)
InitWith(worldInfo, worldCloses) ==
    /\ pc = "idle"
    /\ search_triggered = FALSE
    /\ raw_input = DefaultInput
    /\ ticker_input = DefaultInput
    /\ error = "none"
    /\ calls = NoCalls
    /\ info \in worldInfo
    /\ closes \in worldCloses
    /\ rsi = <<>>
    /\ data = NoData
    /\ clean_hist = <<>>
    /\ n = NoItem
    /\ idx = 0
    /\ first_seen = <<>>
    /\ titles_found = <<>>
    /\ seen_titles = {}
    /\ display_news = <<>>
    /\ scores = EmptyBag
    /\ outcomes = NoOutcomes
    /\ classified = <<>>
    /\ scored_after_fail = FALSE
    /\ sent_val = Rat(0, 1)
    /\ sent_text = NoNewsData

\* a request for any typed ticker
Init == InitWith({DefaultInfo, Info(FALSE, FALSE, NoneV, NoneV)}, {DefaultCloses})
Next ==
    \/ EditTicker
    \/ ClickRun
    \/ RunScript
    \/ GetData
    \/ FetchNews
    \/ NewsLoopTiny
    \/ NewsEnd
    \/ Aggregate
    \/ Render
Spec == Init /\ [][Next]_vars

\* a request whose news batch is long
InitBatch == InitWith({DefaultInfo}, {DefaultCloses})
NextBatch ==
    \/ ClickRun
    \/ RunScript
    \/ GetData
    \/ FetchNews
    \/ NewsLoopBatch
    \/ NewsEnd
    \/ Aggregate
    \/ Render
SpecBatch == InitBatch /\ [][NextBatch]_vars

\* a request whose news batch is short and holds items of every shape
NextNews ==
    \/ ClickRun
    \/ RunScript
    \/ GetData
    \/ FetchNews
    \/ NewsLoopRich
    \/ NewsEnd
    \/ Aggregate
    \/ Render
SpecNews == InitBatch /\ [][NextNews]_vars

\* get_data over every fundamentals record
Fundamentals ==
    {NoneV, StrV} \cup {NumV(i) : i \in (-MaxFcf)..MaxFcf}
InitDcf ==
    InitWith({Info(FALSE, TRUE, f, s) : f \in Fundamentals, s \in Fundamentals},
             {DefaultCloses})
NextData ==
    \/ ClickRun
    \/ RunScript
    \/ GetData
SpecDcf == InitDcf /\ [][NextData]_vars

\* get_data over every price series
Prices == {1, 2}
Series == UNION {[1..k -> Prices] : k \in 0..MaxLen}
InitRsi ==
    InitWith({DefaultInfo, Info(FALSE, FALSE, NoneV, NoneV)}, Series)
SpecRsi == InitRsi /\ [][NextData]_vars

(***************************************************************************)
(* Properties.                                                             *)
(***************************************************************************)
Titles(display) == [i \in DOMAIN display |-> display[i].title]
NoRepeat(s) == \A i, j \in DOMAIN s : s[i] = s[j] => i = j
Scored == outcomes.positive + outcomes.negative + outcomes.neutral
Finished == pc \in {"render", "done"}

\* C1: whatever the batch holds (duplicates, missing, empty or nested titles),
\* no title occurs twice in titles_found or in display_news, and the titles
\* emitted are the titles of the examined items in the order of their first
\* appearance.
C1_NoDuplicateInOrder ==
    /\ NoRepeat(titles_found)
    /\ NoRepeat(Titles(display_news))
    /\ titles_found = first_seen
    /\ Titles(display_news) = SubSeq(first_seen, 1, Len(display_news))
\* a third item repeating the first of two titles has been examined
C1_Witness ==
    /\ idx = 3
    /\ Len(titles_found) = 2
    /\ ResolveTitle(n) = titles_found[1]

C3_SentimentOfScoredOnly ==
    Finished =>
        LET total == outcomes.positive - outcomes.negative IN
        IF Scored = 0
        THEN sent_text.label = "No News Data"
        ELSE /\ sent_val.t = "num"
             /\ sent_val.num * Scored = total * sent_val.den
             /\ (outcomes.positive = Scored => sent_val = Rat(1, 1))
             /\ (outcomes.negative = Scored => sent_val = Rat(-1, 1))
             /\ sent_text.label =
                    IF 100 * total > 15 * Scored THEN "Positive"
                    ELSE IF 100 * total < -15 * Scored THEN "Negative"
                    ELSE "Neutral / Mixed"
\* twenty titles scored with a mean of exactly 0.15
C3_Witness ==
    /\ pc = "done"
    /\ Scored = 20
    /\ outcomes.positive - outcomes.negative = 3
    /\ sent_text.label = "Neutral / Mixed"

C4_State ==
    /\ classified = titles_found
    /\ Len(titles_found) = Scored + outcomes.fail
    /\ Len(display_news) = Min(5, Scored + outcomes.fail)
    /\ LenScores(scores) = Scored
    /\ SumScores(scores) = outcomes.positive - outcomes.negative
    /\ Finished => /\ (sent_text.label = "No News Data") = (Scored = 0)
                   /\ Scored > 0 => sent_val = Rat(SumScores(scores), Scored)
\* C4: a failed classifier call adds no score and does not end the loop: each
\* accepted title, failed ones included, is kept in titles_found (and in
\* display_news while it has room) and is classified exactly once, the scores
\* are those of the successful calls, and the aggregate of a finished request
\* is taken over them alone.
C4_FailureSkipsOneTitle ==
    /\ []C4_State
    /\ [][idx' = idx + 1 => pc' = "news"]_vars
\* a call failed, a later call succeeded, and the request finished
C4_Witness ==
    /\ pc = "done"
    /\ outcomes.fail >= 1
    /\ scored_after_fail

\* C5 as stated: calculate_dcf returns a number exactly when free cash flow is
\* strictly positive and shares outstanding is present and positive, and is
\* unavailable otherwise.
C5_FailsClosed ==
    pc = "fetch_news" =>
        (data.DCF.t = "num") =
            (/\ info.fcf.t = "num" /\ info.fcf.v > 0
             /\ info.shares.t = "num" /\ info.shares.v > 0)

Malformed(ticker) ==
    \/ ticker = <<>>
    \/ \E i \in 1..Len(ticker) : ticker[i] \notin AZ
    \/ Len(ticker) > 6
\* C6: a malformed ticker (empty, a character outside A-Z, or more than 6
\* characters) ends the request with a validation error and no call of
\* get_data, stock.news, the classifier or get_report; a ticker of 1 to 6
\* letters reaches get_data.
C6_ValidationGate ==
    pc \notin {"idle", "run"} =>
        IF Malformed(Strip(Upper(raw_input)))
        THEN /\ pc = "error"
             /\ error \in {"empty", "letters", "long"}
             /\ calls = NoCalls
             /\ classified = <<>>
        ELSE pc = "get_data" \/ calls.get_data = 1
\* a ticker of seven letters was rejected
C6_Witness ==
    /\ pc = "error"
    /\ Len(ticker_input) = 7
    /\ \A i \in 1..Len(ticker_input) : ticker_input[i] \in AZ

ChainLink(item, title) ==
    LET c == item.content IN
    IF Truthy(item.link) THEN item.link
    ELSE IF /\ IsDict(c) /\ IsDict(c.clickThroughUrl)
            /\ Truthy(c.clickThroughUrl.url)
         THEN c.clickThroughUrl.url
    ELSE IF /\ IsDict(c) /\ IsDict(c.canonicalUrl)
            /\ Truthy(c.canonicalUrl.url)
         THEN c.canonicalUrl.url
    ELSE "https://www.google.com/search?q=" \o title
C7_Step ==
    IF idx' = idx + 1
    THEN LET title == ResolveTitle(n') IN
         IF Truthy(title) /\ title \notin Range(first_seen) /\ Len(display_news) < 5
         THEN display_news' =
                  Append(display_news,
                         [title |-> title, link |-> ChainLink(n', title)])
         ELSE display_news' = display_news
    ELSE display_news' = display_news
\* C7: the link of an emitted headline is that of the first raw item carrying
\* the title: its link field if present, else content.clickThroughUrl.url, else
\* content.canonicalUrl.url (each only through dicts and only if present),
\* else a search URL made from the title; an item whose title was seen before
\* changes nothing.
C7_FirstLinkByFallback == [][C7_Step]_vars
\* a headline keeps its click-through link after a duplicate with a direct link
C7_Witness ==
    /\ idx = 2
    /\ Len(display_news) = 1
    /\ display_news[1].link = "CT"
    /\ ResolveTitle(n) = display_news[1].title
    /\ n.link = "L"

\* C8: throughout the loop and after it, display_news is the first min(5, n)
\* entries of the n <= 20 titles of titles_found, in order, and titles_found is
\* what was sent to the classifier.
C8_DisplayIsPrefix ==
    /\ Len(titles_found) <= 20
    /\ Len(display_news) = Min(5, Len(titles_found))
    /\ \A i \in DOMAIN display_news : display_news[i].title = titles_found[i]
    /\ classified = titles_found
\* twenty titles accepted, five displayed
C8_Witness ==
    /\ pc = "done"
    /\ Len(titles_found) = 20
    /\ Len(display_news) = 5

\* C9 as stated: wherever the window is filled and holds no loss, the RSI is
\* 100 (flat windows included).
C9_ZeroLossIs100 ==
    pc = "fetch_news" =>
        \A i \in DOMAIN rsi :
            (/\ i > 14
             /\ \A j \in (i - 13)..i : closes[j] >= closes[j - 1])
            => rsi[i] = Rat(100, 1)

\* C10 as stated: the first 14 RSI entries are undefined and get_data hands no
\* undefined RSI downstream, neither in clean_hist nor as data['RSI'].
C10_NoUndefinedDownstream ==
    pc = "fetch_news" =>
        /\ \A i \in DOMAIN rsi : i <= 14 => rsi[i] = NaN
        /\ data.RSI # NaN
        /\ \A i \in DOMAIN clean_hist : clean_hist[i].RSI # NaN

====
